---- MODULE Spec2Model ----
(***************************************************************************)
(* Model of the Manipulense backend: the POST /analyze handler of main.py  *)
(* and the segmenter / analyzer of utils.py.                               *)
(*                                                                         *)
(* Texts are TLA+ strings (TLC evaluates Len, Head, Tail, SubSeq and \o on *)
(* them), a character is a string of length 1.  Confidences and the        *)
(* influence score are floats with two decimals in the code; the model     *)
(* keeps them as integers in hundredths (0.95 is 95).                      *)
(***************************************************************************)
EXTENDS Integers, Sequences, FiniteSets

VARIABLES
    rng,        \* state of the module-global generator behind random.uniform
    pc,         \* "idle": no request in hand; "done": a response is ready
    chat_input, \* ChatInput.chat of the request in hand
    messages,   \* what preprocess_chat returned for it
    response,   \* the ChatOutput (or the HTTPException) of the request
    calls,      \* the core functions the handler invoked, in order
    draws,      \* the random.uniform calls of the request, in order
    last        \* the previous completed request (history, SpecPair only)

vars == <<rng, pc, chat_input, messages, response, calls, draws, last>>

----------------------------------------------------------------------------
(* Bounds of the model.                                                    *)

\* the generator has RngMod states
RngMod == 4
\* longest chat of the exhaustive character family
MaxChars == 5
\* most lines of a chat of the dialogue family
MaxLines == 3
\* most phrases of a text of the phrase family
MaxPhrases == 2
\* most lines of a chat of the pair family
MaxPairLines == 3

----------------------------------------------------------------------------
(* Characters and Python's string primitives.                              *)

Char(s, i) == SubSeq(s, i, i)

\* the characters str.isspace() and the regex class \s accept
Whitespace == {" ", "\t", "\n", "\r"}

\* the characters str.splitlines() breaks a line at
LineBreaks == {"\n", "\r"}

UpperCase == "ABCDEFGHIJKLMNOPQRSTUVWXYZ"
LowerCase == "abcdefghijklmnopqrstuvwxyz"
Digits == "0123456789"

\* the regex class [A-Za-z0-9_]
WordChars ==
    {Char(UpperCase, i) : i \in 1..26} \cup {Char(LowerCase, i) : i \in 1..26}
        \cup {Char(Digits, i) : i \in 1..10} \cup {"_"}

LowerMap ==
    [c \in {Char(UpperCase, i) : i \in 1..26} |->
        Char(LowerCase, CHOOSE i \in 1..26 : Char(UpperCase, i) = c)]

RECURSIVE lower(_)
lower(s) ==
    IF s = "" THEN ""
    ELSE (IF Head(s) \in DOMAIN LowerMap THEN LowerMap[Head(s)] ELSE Head(s))
            \o lower(Tail(s))

RECURSIVE lstrip(_)
lstrip(s) ==
    IF s # "" /\ Head(s) \in Whitespace THEN lstrip(Tail(s)) ELSE s

RECURSIVE rstrip(_)
rstrip(s) ==
    IF s # "" /\ Char(s, Len(s)) \in Whitespace
    THEN rstrip(SubSeq(s, 1, Len(s) - 1))
    ELSE s

strip(s) == rstrip(lstrip(s))

\* re.sub(r"\s+", " ", s)
RECURSIVE sub_spaces(_)
sub_spaces(s) ==
    IF s = "" THEN ""
    ELSE IF Head(s) \in Whitespace THEN " " \o sub_spaces(lstrip(s))
    ELSE Head(s) \o sub_spaces(Tail(s))

\* the Python test `t in s` on strings
Contains(s, t) ==
    \E i \in 1..(Len(s) - Len(t) + 1) : SubSeq(s, i, i + Len(t) - 1) = t

\* str.replace('-', ' ')
RECURSIVE replace_hyphens(_)
replace_hyphens(s) ==
    IF s = "" THEN ""
    ELSE (IF Head(s) = "-" THEN " " ELSE Head(s)) \o replace_hyphens(Tail(s))

_norm(text) == sub_spaces(lower(strip(text)))

----------------------------------------------------------------------------
(* utils.py: the segmenter.                                                *)

\* str.splitlines(): "\r\n" is one break, and a break at the very end opens
\* no further line.  cur is the line being collected.
RECURSIVE split_from(_, _)
split_from(s, cur) ==
    IF s = "" THEN (IF cur = "" THEN <<>> ELSE <<cur>>)
    ELSE IF Len(s) >= 2 /\ SubSeq(s, 1, 2) = "\r\n"
         THEN <<cur>> \o split_from(SubSeq(s, 3, Len(s)), "")
    ELSE IF Head(s) \in LineBreaks THEN <<cur>> \o split_from(Tail(s), "")
    ELSE split_from(Tail(s), cur \o Head(s))

splitlines(s) == split_from(s, "")

\* the number of leading characters of s that lie in S: a greedy S*
RECURSIVE span(_, _)
span(s, S) == IF s # "" /\ Head(s) \in S THEN 1 + span(Tail(s), S) ELSE 0

Drop(s, n) == SubSeq(s, n + 1, Len(s))

\* speaker_pattern with the \s* after the colon left out: the text keeps its
\* leading whitespace
speaker_pattern_keep_spaces(line) ==
    LET a == Drop(line, span(line, Whitespace))
        n == span(a, WordChars)
        b == Drop(a, n)
        c == Drop(b, span(b, Whitespace))
        d == Drop(c, 1)
    IN  IF n > 0 /\ c # "" /\ Head(c) = ":" /\ d # ""
        THEN [matched |-> TRUE, speaker |-> SubSeq(a, 1, n), text |-> d]
        ELSE [matched |-> FALSE, speaker |-> "", text |-> ""]

\* speaker_pattern.match(line) for ^\s*([A-Za-z0-9_]+)\s*:\s*(.+)$ .  A line
\* holds no line break (splitlines removed them), so "." takes any of its
\* characters.  Each class is greedy; the only backtracking that can help is
\* the last \s* giving one character back when (.+) would be left empty.
speaker_pattern(line) ==
    LET a == Drop(line, span(line, Whitespace))
        n == span(a, WordChars)
        b == Drop(a, n)
        c == Drop(b, span(b, Whitespace))
        d == Drop(c, 1)
        w == span(d, Whitespace)
        rest == IF w = Len(d) /\ w > 0 THEN Drop(d, w - 1) ELSE Drop(d, w)
    IN  IF n > 0 /\ c # "" /\ Head(c) = ":" /\ d # ""
        THEN [matched |-> TRUE, speaker |-> SubSeq(a, 1, n), text |-> rest]
        ELSE [matched |-> FALSE, speaker |-> "", text |-> ""]

\* the loop without its `continue`: a blank line becomes a message
RECURSIVE preprocess_lines_keep_blank(_)
preprocess_lines_keep_blank(lines) ==
    IF lines = <<>> THEN <<>>
    ELSE LET line == strip(Head(lines))
             m == speaker_pattern(line)
         IN  <<IF m.matched
               THEN [speaker |-> m.speaker, text |-> m.text]
               ELSE [speaker |-> "Unknown", text |-> line]>>
             \o preprocess_lines_keep_blank(Tail(lines))

\* the body of the loop `for raw in lines`
RECURSIVE preprocess_lines(_)
preprocess_lines(lines) ==
    IF lines = <<>> THEN <<>>
    ELSE LET line == strip(Head(lines))
             m == speaker_pattern(line)
         IN  IF line = "" THEN preprocess_lines(Tail(lines))
             ELSE <<IF m.matched
                    THEN [speaker |-> m.speaker, text |-> m.text]
                    ELSE [speaker |-> "Unknown", text |-> line]>>
                  \o preprocess_lines(Tail(lines))

preprocess_chat(chat_text) == preprocess_lines(splitlines(chat_text))

----------------------------------------------------------------------------
(* utils.py: the rules and the random confidence.                          *)

\* the rules with flattery written before guilt-tripping
MANIPULATION_RULES_flattery_first ==
    << [label |-> "flattery",
        triggers |-> <<"you're the only one", "you're the best",
                       "no one else like you", "only you can">>],
       [label |-> "guilt-tripping",
        triggers |-> <<"after all", "because i", "you owed me", "you owe me",
                       "you should have">>],
       [label |-> "fear-pressure",
        triggers |-> <<"if you don't", "or else", "you will regret",
                       "you'll regret">>] >>

\* a dict keeps its insertion order, so .items() yields the categories as
\* they are written
MANIPULATION_RULES ==
    << [label |-> "guilt-tripping",
        triggers |-> <<"after all", "because i", "you owed me", "you owe me",
                       "you should have">>],
       [label |-> "flattery",
        triggers |-> <<"you're the only one", "you're the best",
                       "no one else like you", "only you can">>],
       [label |-> "fear-pressure",
        triggers |-> <<"if you don't", "or else", "you will regret",
                       "you'll regret">>] >>

ACCEPTANCE_KEYWORDS ==
    <<"okay", "ok", "fine", "i'll", "i will", "sure", "alright", "accepted",
      "yes">>

\* round(x) of the rational num / den, ties to the even neighbour as Python's
\* round() does
round_div(num, den) ==
    LET q == num \div den
        rem == num % den
    IN  IF 2 * rem > den THEN q + 1
        ELSE IF 2 * rem = den THEN q + (q % 2)
        ELSE q

\* random.random() in generator state r, as the numerator of a fraction of
\* RngMod - 1.  The largest stands for the draws so close to 1 that
\* a + (b - a) * random() rounds to b.
random(r) == r

\* the generator's state after one draw
advance(r) == (r + 1) % RngMod

\* round(random.uniform(a, b), 2) in generator state r, in hundredths:
\* uniform is a + (b - a) * random()
round_uniform(a, b, r) ==
    round_div(a * (RngMod - 1) + (b - a) * random(r), RngMod - 1)

\* round(random.uniform(0.7, 0.95), 2)
rule_confidence(r) == round_uniform(70, 95, r)

\* the override drawing from the rule-based range
override_confidence_rule_range(r) == round_uniform(70, 95, r)

\* round(random.uniform(0.75, 0.97), 2)
override_confidence(r) == round_uniform(75, 97, r)

----------------------------------------------------------------------------
(* utils.py: the analyzer.                                                 *)

\* the inner loop `for trig in triggers`: the first trigger found in n, or ""
RECURSIVE first_trigger(_, _)
first_trigger(n, triggers) ==
    IF triggers = <<>> THEN ""
    ELSE IF Contains(n, Head(triggers)) THEN Head(triggers)
    ELSE first_trigger(n, Tail(triggers))

\* the outer loop `for label, triggers in MANIPULATION_RULES.items()`
RECURSIVE scan_rules(_, _)
scan_rules(n, rules) ==
    IF rules = <<>> THEN [label |-> "neutral", trig |-> ""]
    ELSE LET t == first_trigger(n, Head(rules).triggers)
         IN  IF t # "" THEN [label |-> Head(rules).label, trig |-> t]
             ELSE scan_rules(n, Tail(rules))

\* analyze_message reporting a match only when its confidence is high
analyze_message_threshold(text, r) ==
    LET hit == scan_rules(_norm(text), MANIPULATION_RULES)
    IN  IF hit.label # "neutral" /\ rule_confidence(r) >= 80
        THEN [label |-> hit.label,
              confidence |-> rule_confidence(r),
              explanation |-> "Phrase '" \o hit.trig \o "' detected; suggests "
                                \o replace_hyphens(hit.label) \o "."]
        ELSE [label |-> "neutral",
              confidence |-> rule_confidence(r),
              explanation |-> "No manipulation keyword detected."]

\* analyze_message(text) with the generator in state r; it draws once on
\* either path
analyze_message(text, r) ==
    LET hit == scan_rules(_norm(text), MANIPULATION_RULES)
    IN  IF hit.label # "neutral"
        THEN [label |-> hit.label,
              confidence |-> rule_confidence(r),
              explanation |-> "Phrase '" \o hit.trig \o "' detected; suggests "
                                \o replace_hyphens(hit.label) \o "."]
        ELSE [label |-> "neutral",
              confidence |-> rule_confidence(r),
              explanation |-> "No manipulation keyword detected."]

\* prev_analysis before the first message
None == [none |-> TRUE]

\* any(k in n_text for k in ACCEPTANCE_KEYWORDS)
contains_acceptance(text) ==
    LET n_text == _norm(text)
    IN  \E k \in 1..Len(ACCEPTANCE_KEYWORDS) :
            Contains(n_text, ACCEPTANCE_KEYWORDS[k])

\* the override's condition without the comparison of the speakers
override_applies_any_speaker(accepts, prev_analysis, speaker) ==
    /\ accepts
    /\ prev_analysis # None
    /\ prev_analysis.label # "neutral"

\* the condition of the pressured-acceptance override
override_applies(accepts, prev_analysis, speaker) ==
    /\ accepts
    /\ prev_analysis # None
    /\ prev_analysis.label # "neutral"
    /\ prev_analysis.speaker # speaker

\* analyze_step keeping the override only when its draw beats the rule-based
\* draw
analyze_step_best_draw(msg, prev_analysis, r) ==
    LET speaker == msg.speaker
        text == msg.text
        rule == analyze_message(text, r)
        over == /\ override_applies(contains_acceptance(text), prev_analysis,
                                    speaker)
                /\ override_confidence(advance(r)) > rule.confidence
    IN  [analysis |->
            [speaker |-> speaker,
             text |-> text,
             label |-> IF over THEN "pressured acceptance" ELSE rule.label,
             confidence |-> IF over THEN override_confidence(advance(r))
                            ELSE rule.confidence,
             explanation |->
                IF over
                THEN "Message contains acceptance keywords and was preceded by a manipulative message from "
                        \o prev_analysis.speaker
                        \o ". This suggests pressured acceptance."
                ELSE rule.explanation],
         draws |->
            <<[kind |-> "rule", value |-> rule.confidence]>> \o
            (IF over
             THEN <<[kind |-> "override",
                     value |-> override_confidence(advance(r))]>>
             ELSE <<>>),
         rng |-> IF over THEN advance(advance(r)) ELSE advance(r)]

\* one pass of the loop `for i, msg in enumerate(messages)` on msg, with the
\* generator in state r: the analysis appended, and the draws it made
analyze_step(msg, prev_analysis, r) ==
    LET speaker == msg.speaker
        text == msg.text
        rule == analyze_message(text, r)
        over == override_applies(contains_acceptance(text), prev_analysis,
                                 speaker)
    IN  [analysis |->
            [speaker |-> speaker,
             text |-> text,
             label |-> IF over THEN "pressured acceptance" ELSE rule.label,
             confidence |-> IF over THEN override_confidence(advance(r))
                            ELSE rule.confidence,
             explanation |->
                IF over
                THEN "Message contains acceptance keywords and was preceded by a manipulative message from "
                        \o prev_analysis.speaker
                        \o ". This suggests pressured acceptance."
                ELSE rule.explanation],
         draws |->
            <<[kind |-> "rule", value |-> rule.confidence]>> \o
            (IF over
             THEN <<[kind |-> "override",
                     value |-> override_confidence(advance(r))]>>
             ELSE <<>>),
         rng |-> IF over THEN advance(advance(r)) ELSE advance(r)]

\* the score cut to two decimals instead of rounded
influence_truncated(manipulative_count, n_messages) ==
    (100 * manipulative_count)
        \div (IF n_messages > 1 THEN n_messages ELSE 1)

\* round(manipulative_count / total, 2) with total = max(len(messages), 1),
\* in hundredths
influence(manipulative_count, n_messages) ==
    round_div(100 * manipulative_count,
              IF n_messages > 1 THEN n_messages ELSE 1)

\* the loop of analyze_chat from message i on, carrying its locals
RECURSIVE analyze_loop(_, _, _, _, _, _, _)
analyze_loop(msgs, i, analyzed, manipulative_count, prev_analysis, r, log) ==
    IF i > Len(msgs)
    THEN [messages |-> analyzed,
          influence_score |-> influence(manipulative_count, Len(msgs)),
          rng |-> r,
          draws |-> log]
    ELSE LET s == analyze_step(msgs[i], prev_analysis, r)
         IN  analyze_loop(msgs, i + 1,
                 Append(analyzed, s.analysis),
                 IF s.analysis.label # "neutral"
                 THEN manipulative_count + 1 ELSE manipulative_count,
                 s.analysis, s.rng,
                 log \o [k \in 1..Len(s.draws) |->
                            [msg |-> i, kind |-> s.draws[k].kind,
                             value |-> s.draws[k].value]])

analyze_chat(msgs, r) == analyze_loop(msgs, 1, <<>>, 0, None, r, <<>>)

----------------------------------------------------------------------------
(* The chats a client may post.                                            *)

\* s1 "\n" s2 "\n" ... for the lines of seq
RECURSIVE join_lines(_)
join_lines(seq) ==
    IF seq = <<>> THEN ""
    ELSE IF Len(seq) = 1 THEN Head(seq)
    ELSE Head(seq) \o "\n" \o join_lines(Tail(seq))

RECURSIVE join_words(_)
join_words(seq) ==
    IF seq = <<>> THEN ""
    ELSE IF Len(seq) = 1 THEN Head(seq)
    ELSE Head(seq) \o " " \o join_words(Tail(seq))

\* the sequences of at most n elements of S
RECURSIVE SeqsUpTo(_, _)
SeqsUpTo(S, n) ==
    IF n = 0 THEN {<<>>}
    ELSE LET R == SeqsUpTo(S, n - 1)
         IN  R \cup {Append(q, x) : q \in R, x \in S}

\* every string of at most MaxChars characters of a small alphabet
Alphabet == {"a", " ", ":", "\n"}

RECURSIVE StringsUpTo(_)
StringsUpTo(n) ==
    IF n = 0 THEN {""}
    ELSE LET R == StringsUpTo(n - 1)
         IN  R \cup {q \o c : q \in R, c \in Alphabet}

CharChats == StringsUpTo(MaxChars)

\* dialogues of at most MaxLines lines
DialogueLines ==
    {"A: you owe me", "B: okay", "A: ok", "hi", "  ", "B : OK,  or else"}

DialogueChats == {join_lines(q) : q \in SeqsUpTo(DialogueLines, MaxLines)}

\* one message whose text is made of at most MaxPhrases phrases
Phrases ==
    {"After  all", "you owe me", "you're the best", "only you can",
     "you'll regret", "or else", "hello", "broker"}

PhraseChats ==
    {"A: " \o join_words(q) : q \in SeqsUpTo(Phrases, MaxPhrases)}

\* single chats: the scenarios of the specification, other line breaks,
\* colons inside the text
ScenarioChats ==
    {"A: you owe me\nB: okay fine", "hello there\nhow are you",
     "A: you owe me\r\nB: okay fine\r\n", "Bob_2:call me at 5:30 ",
     "A:", "\t \n", "you owe me: yes"}

ChatInputs == CharChats \cup DialogueChats \cup PhraseChats \cup ScenarioChats

\* the chats of the two-request histories
PairLines == {"A: you owe me", "B: ok", "A: ok"}

PairChats == {join_lines(q) : q \in SeqsUpTo(PairLines, MaxPairLines)}

----------------------------------------------------------------------------
(* main.py: the service.                                                   *)

NoResponse == [status |-> 0, messages |-> <<>>, influence_score |-> 0]

\* the boundary testing for the empty string only
is_empty_chat_exact(chat_text) == chat_text = ""

\* `not chat_text or not chat_text.strip()`
is_empty_chat(chat_text) == chat_text = "" \/ strip(chat_text) = ""

\* the process starts: importing random seeds its generator from the system
Init ==
    /\ rng \in 0..(RngMod - 1)
    /\ pc = "idle"
    /\ chat_input = ""
    /\ messages = <<>>
    /\ response = NoResponse
    /\ calls = <<>>
    /\ draws = <<>>
    /\ last = None

\* POST /analyze with body {chat: chat_text}: the handler runs without
\* awaiting, so a request is served whole
analyze(chat_text) ==
    /\ pc = "idle"
    /\ pc' = "done"
    /\ chat_input' = chat_text
    /\ last' = last
    /\ IF is_empty_chat(chat_text)
       THEN /\ response' = [status |-> 400, messages |-> <<>>,
                            influence_score |-> 0]
            /\ messages' = <<>>
            /\ calls' = <<>>
            /\ draws' = <<>>
            /\ rng' = rng
       ELSE \E msgs \in {preprocess_chat(chat_text)} :
            \E result \in {analyze_chat(msgs, rng)} :
                /\ messages' = msgs
                /\ calls' = <<"preprocess_chat", "analyze_chat">>
                /\ response' = [status |-> 200,
                                messages |-> result.messages,
                                influence_score |-> result.influence_score]
                /\ draws' = result.draws
                /\ rng' = result.rng

\* the response is sent and everything the request created is dropped; only
\* the generator's state stays with the process
finish_request ==
    /\ pc = "done"
    /\ pc' = "idle"
    /\ chat_input' = ""
    /\ messages' = <<>>
    /\ response' = NoResponse
    /\ calls' = <<>>
    /\ draws' = <<>>
    /\ UNCHANGED <<rng, last>>

\* the core called as a library, without the boundary: the segmenter, then
\* the analyzer on what it returned
run_core(chat_text) ==
    /\ pc = "idle"
    /\ pc' = "done"
    /\ chat_input' = chat_text
    /\ last' = last
    /\ \E msgs \in {preprocess_chat(chat_text)} :
       \E result \in {analyze_chat(msgs, rng)} :
           /\ messages' = msgs
           /\ calls' = <<"preprocess_chat", "analyze_chat">>
           /\ response' = [status |-> 200,
                           messages |-> result.messages,
                           influence_score |-> result.influence_score]
           /\ draws' = result.draws
           /\ rng' = result.rng

Next ==
    \/ pc = "idle" /\ \E chat_text \in ChatInputs : analyze(chat_text)
    \/ finish_request

Spec == Init /\ [][Next]_vars

NextCore ==
    \/ pc = "idle" /\ \E chat_text \in ChatInputs : run_core(chat_text)
    \/ finish_request

SpecCore == Init /\ [][NextCore]_vars

\* as finish_request, with the request kept as history for comparing two
\* requests
archive_request ==
    /\ pc = "done"
    /\ pc' = "idle"
    /\ last' = [chat |-> chat_input, messages |-> messages,
                response |-> response]
    /\ chat_input' = ""
    /\ messages' = <<>>
    /\ response' = NoResponse
    /\ calls' = <<>>
    /\ draws' = <<>>
    /\ UNCHANGED rng

NextPair ==
    \/ pc = "idle" /\ \E chat_text \in PairChats : run_core(chat_text)
    \/ archive_request

SpecPair == Init /\ [][NextPair]_vars

----------------------------------------------------------------------------
(* What the claims are stated with: the responses read back, and the       *)
(* segmenter's contract written from positions in the chat rather than by  *)
(* scanning it.                                                            *)

Done == pc = "done"

SetMin(S) == CHOOSE x \in S : \A y \in S : x <= y
SetMax(S) == CHOOSE x \in S : \A y \in S : x >= y

IsBlank(s) == \A i \in 1..Len(s) : Char(s, i) \in Whitespace

SingleLine(s) == \A i \in 1..Len(s) : Char(s, i) \notin LineBreaks

\* s without the whitespace at its two ends, for s not blank
Trimmed(s) ==
    LET solid == {i \in 1..Len(s) : Char(s, i) \notin Whitespace}
    IN  SubSeq(s, SetMin(solid), SetMax(solid))

\* s without the whitespace at its end, for s not blank
RightTrimmed(s) ==
    SubSeq(s, 1, SetMax({i \in 1..Len(s) : Char(s, i) \notin Whitespace}))

\* the positions where a line of s starts, and the line that starts at p
LineStarts(s) ==
    {p \in 1..Len(s) : p = 1 \/ Char(s, p - 1) \in LineBreaks}

LineAt(s, p) ==
    SubSeq(s, p,
           SetMin({q \in p..Len(s) : Char(s, q) \in LineBreaks}
                    \cup {Len(s) + 1}) - 1)

NonBlankStarts(s) == {p \in LineStarts(s) : ~IsBlank(LineAt(s, p))}

\* u is a name of word characters with optional whitespace around it
IsNamePart(u) ==
    /\ ~IsBlank(u)
    /\ \A i \in 1..Len(Trimmed(u)) : Char(Trimmed(u), i) \in WordChars

\* the trimmed line t is a name, a colon and at least one more character
MatchesPattern(t) ==
    \E p \in 1..(Len(t) - 1) :
        Char(t, p) = ":" /\ IsNamePart(SubSeq(t, 1, p - 1))

\* s is name, colon, optional whitespace, and a text that starts at j
IsNameColonText(s, p, j) ==
    /\ Char(s, p) = ":"
    /\ IsNamePart(SubSeq(s, 1, p - 1))
    /\ IsBlank(SubSeq(s, p + 1, j - 1))
    /\ Char(s, j) \notin Whitespace

AcceptsAt(i) == contains_acceptance(response.messages[i].text)

PrevNonNeutralAt(i) == i > 1 /\ response.messages[i - 1].label # "neutral"

PrevOtherSpeakerAt(i) ==
    i > 1 /\ response.messages[i - 1].speaker # response.messages[i].speaker

CategoryOrder == <<"guilt-tripping", "flattery", "fear-pressure">>

CategorySpoken == <<"guilt tripping", "flattery", "fear pressure">>

TriggersOf(label) ==
    MANIPULATION_RULES[CHOOSE k \in 1..Len(MANIPULATION_RULES) :
                          MANIPULATION_RULES[k].label = label].triggers

\* the categories, by their place in CategoryOrder, that have a trigger in n
CategoriesIn(n) ==
    {c \in 1..Len(CategoryOrder) :
        \E t \in 1..Len(TriggersOf(CategoryOrder[c])) :
            Contains(n, TriggersOf(CategoryOrder[c])[t])}

\* the first trigger, in list order, of category c found in n
FirstTriggerIn(n, c) ==
    LET trs == TriggersOf(CategoryOrder[c])
    IN  trs[SetMin({t \in 1..Len(trs) : Contains(n, trs[t])})]

NonNeutralCount ==
    Cardinality({i \in 1..Len(response.messages) :
                    response.messages[i].label # "neutral"})

\* the analysis before message i of a run, None for the first
PrevOf(run, i) == IF i = 1 THEN None ELSE run[i - 1]

DrawsOf(i) == SelectSeq(draws, LAMBDA d : d.msg = i)

----------------------------------------------------------------------------
(* The claims.                                                             *)

\* C1: the final label of message i is 'pressured acceptance' exactly when
\* its normalized text holds an acceptance keyword, a message i-1 exists
\* whose final label is not 'neutral', and the speaker of i-1 differs;
\* otherwise it is the rule-based label of analyze_message for its text.
C1_PressuredAcceptanceIff ==
    Done =>
        \A i \in 1..Len(response.messages) :
            LET all3 == AcceptsAt(i) /\ PrevNonNeutralAt(i)
                            /\ PrevOtherSpeakerAt(i)
            IN  /\ (response.messages[i].label = "pressured acceptance")
                        <=> all3
                /\ ~all3 =>
                      response.messages[i].label =
                          analyze_message(response.messages[i].text,
                                          rng).label

\* a message overridden because the message before it was itself overridden
\* (the rule-based label of that one is neutral)
C1_Witness ==
    /\ Done
    /\ \E i \in 2..Len(response.messages) :
        /\ response.messages[i].label = "pressured acceptance"
        /\ response.messages[i - 1].label = "pressured acceptance"
        /\ analyze_message(response.messages[i - 1].text, rng).label
              = "neutral"

\* C2: a message that is not overridden carries the first category, in the
\* order guilt-tripping, flattery, fear-pressure, that has a trigger in its
\* normalized text, its explanation names the first such trigger of that
\* category in list order, and it is 'neutral' exactly when no category has
\* one.
C2_FirstCategoryFirstTrigger ==
    Done =>
        \A i \in 1..Len(response.messages) :
            LET m == response.messages[i]
                n == _norm(m.text)
                hits == CategoriesIn(n)
            IN  m.label # "pressured acceptance" =>
                  IF hits = {}
                  THEN /\ m.label = "neutral"
                       /\ m.explanation = "No manipulation keyword detected."
                  ELSE /\ m.label = CategoryOrder[SetMin(hits)]
                       /\ m.explanation =
                            "Phrase '" \o FirstTriggerIn(n, SetMin(hits))
                                \o "' detected; suggests "
                                \o CategorySpoken[SetMin(hits)] \o "."

\* a text with a flattery trigger before a guilt-tripping one is labelled
\* guilt-tripping, and one with "you'll regret" before "or else" names
\* "or else"
C2_Witness ==
    /\ Done
    /\ Len(response.messages) = 1
    /\ \/ /\ response.messages[1].label = "guilt-tripping"
          /\ Contains(_norm(response.messages[1].text),
                      "you're the best after all")
       \/ /\ Contains(_norm(response.messages[1].text),
                      "you'll regret or else")
          /\ Contains(response.messages[1].explanation, "'or else'")

\* C3: influence_score lies in [0, 1] and is round(c / max(n, 1), 2) for n
\* input messages of which c have a final label other than 'neutral'; for
\* no messages it is 0 with no analyses.
C3_InfluenceScore ==
    Done /\ response.status = 200 =>
        /\ response.influence_score \in 0..100
        /\ response.influence_score =
              round_div(100 * NonNeutralCount,
                        IF Len(messages) = 0 THEN 1 ELSE Len(messages))
        /\ Len(messages) = 0 =>
              response.influence_score = 0 /\ response.messages = <<>>

\* two of three messages count, one of them a pressured acceptance: 0.67
C3_Witness ==
    /\ Done
    /\ Len(messages) = 3
    /\ response.influence_score = 67
    /\ \E i \in 1..3 : response.messages[i].label = "pressured acceptance"

\* C4: preprocess_chat returns one message per line that is not blank, in
\* the order of the lines; a line that does not match the speaker pattern
\* gives speaker 'Unknown' and the whole trimmed line; a chat of blank lines
\* gives no message (and influence_score 0).
C4_OneMessagePerNonBlankLine ==
    Done /\ calls # <<>> =>
        LET starts == NonBlankStarts(chat_input)
        IN  /\ Len(messages) = Cardinality(starts)
            /\ \A p \in starts :
                LET t == Trimmed(LineAt(chat_input, p))
                    m == messages[Cardinality({q \in starts : q <= p})]
                IN  /\ \E j \in 1..Len(t) : m.text = SubSeq(t, j, Len(t))
                    /\ ~MatchesPattern(t) =>
                          m = [speaker |-> "Unknown", text |-> t]
            /\ starts = {} =>
                  /\ messages = <<>>
                  /\ response.messages = <<>>
                  /\ response.influence_score = 0

\* a blank line between two lines, the second of which has no speaker
C4_Witness ==
    /\ Done
    /\ Cardinality(LineStarts(chat_input)) = 3
    /\ Len(messages) = 2
    /\ messages[2].speaker = "Unknown"
    /\ messages[1].speaker # "Unknown"

\* C5, as claimed: a single line `name: text` gives exactly one message with
\* that name as speaker and that remainder as text.
C5_NameTextAsClaimed ==
    Done /\ calls # <<>> /\ SingleLine(chat_input) =>
        \A p \in 1..Len(chat_input) : \A j \in (p + 1)..Len(chat_input) :
            IsNameColonText(chat_input, p, j) =>
                messages =
                    <<[speaker |-> Trimmed(SubSeq(chat_input, 1, p - 1)),
                       text |-> SubSeq(chat_input, j, Len(chat_input))]>>

\* C5, amended: a single line `name: text` gives exactly one message with
\* that name as speaker and, as text, the remainder without the whitespace
\* at its end (the line is trimmed before it is matched); further colons
\* stay in the text.
C5_NameTextTrimmed ==
    Done /\ calls # <<>> /\ SingleLine(chat_input) =>
        \A p \in 1..Len(chat_input) : \A j \in (p + 1)..Len(chat_input) :
            IsNameColonText(chat_input, p, j) =>
                messages =
                    <<[speaker |-> Trimmed(SubSeq(chat_input, 1, p - 1)),
                       text |->
                          RightTrimmed(SubSeq(chat_input, j,
                                              Len(chat_input)))]>>

\* a line whose text holds a further colon, and whitespace at its end
C5_Witness ==
    /\ Done
    /\ SingleLine(chat_input)
    /\ \E p \in 1..Len(chat_input) : \E j \in (p + 1)..Len(chat_input) :
          IsNameColonText(chat_input, p, j)
    /\ Char(chat_input, Len(chat_input)) \in Whitespace
    /\ Len(messages) = 1
    /\ Contains(messages[1].text, ":")
    /\ messages[1].speaker # "Unknown"

\* C6: POST /analyze answers an empty or whitespace-only chat with 400
\* before the segmenter or the analyzer is invoked, and runs the segmenter
\* and then the analyzer and returns a result for every other chat.
C6_BoundaryRejectsBlank ==
    Done =>
        IF IsBlank(chat_input)
        THEN /\ response.status = 400
             /\ calls = <<>>
             /\ draws = <<>>
        ELSE /\ response.status = 200
             /\ calls = <<"preprocess_chat", "analyze_chat">>
             /\ Len(messages) >= 1
             /\ Len(response.messages) = Len(messages)

\* a chat of whitespace only is rejected
C6_Witness ==
    /\ Done
    /\ chat_input # ""
    /\ IsBlank(chat_input)
    /\ response.status = 400
    /\ calls = <<>>

\* C7, as claimed: in two runs where message i has the same text and
\* message i-1 the same finalized analysis, message i gets the same label.
C7_LabelFromTextAndPrev ==
    Done /\ last # None =>
        \A i \in 1..Len(response.messages) :
            (/\ i <= Len(last.response.messages)
             /\ last.response.messages[i].text = response.messages[i].text
             /\ PrevOf(last.response.messages, i)
                    = PrevOf(response.messages, i))
                => last.response.messages[i].label
                      = response.messages[i].label

\* C7, amended: in two runs where message i has the same text and the same
\* speaker and message i-1 the same finalized analysis, message i gets the
\* same label.
C7_LabelFromTextSpeakerAndPrev ==
    Done /\ last # None =>
        \A i \in 1..Len(response.messages) :
            (/\ i <= Len(last.response.messages)
             /\ last.response.messages[i].text = response.messages[i].text
             /\ last.response.messages[i].speaker
                    = response.messages[i].speaker
             /\ PrevOf(last.response.messages, i)
                    = PrevOf(response.messages, i))
                => last.response.messages[i].label
                      = response.messages[i].label

\* two runs that differ in their first message and agree on message 2's
\* analysis and on message 3, which is overridden in both
C7_Witness ==
    /\ Done
    /\ last # None
    /\ Len(response.messages) = 3
    /\ Len(last.response.messages) = 3
    /\ last.response.messages[1] # response.messages[1]
    /\ last.response.messages[2] = response.messages[2]
    /\ last.response.messages[3].text = response.messages[3].text
    /\ last.response.messages[3].speaker = response.messages[3].speaker
    /\ response.messages[3].label = "pressured acceptance"

\* C8: two runs of analyze_chat on the same messages give, position by
\* position, the same speaker, text, label and explanation, and the same
\* influence_score, whatever the draws.
C8_SameLabelsOnRerun ==
    Done /\ last # None /\ last.messages = messages =>
        /\ Len(last.response.messages) = Len(response.messages)
        /\ \A i \in 1..Len(response.messages) :
            /\ last.response.messages[i].speaker
                  = response.messages[i].speaker
            /\ last.response.messages[i].text = response.messages[i].text
            /\ last.response.messages[i].label = response.messages[i].label
            /\ last.response.messages[i].explanation
                  = response.messages[i].explanation
        /\ last.response.influence_score = response.influence_score

\* the same messages analysed twice, with an override, and other draws
C8_Witness ==
    /\ Done
    /\ last # None
    /\ last.messages = messages
    /\ \E i \in 1..Len(response.messages) :
        /\ response.messages[i].label = "pressured acceptance"
        /\ last.response.messages[i].confidence
              # response.messages[i].confidence

\* C9: the analyzer keeps no process-wide mutable state: serving a request
\* leaves the state of the random generator as it was, so what a request
\* draws cannot depend on the draws of other requests.
C9_NoSharedRandomState == [][rng' = rng]_vars

\* C10: every confidence is in [0.70, 0.97]: in [0.75, 0.97] for a
\* 'pressured acceptance', in [0.70, 0.95] otherwise; an overridden
\* message carries the override draw, made after its rule-based draw.
C10_ConfidenceRanges ==
    Done =>
        \A i \in 1..Len(response.messages) :
            LET m == response.messages[i]
                d == DrawsOf(i)
            IN  /\ m.confidence \in 70..97
                /\ IF m.label = "pressured acceptance"
                   THEN /\ m.confidence \in 75..97
                        /\ Len(d) = 2
                        /\ d[1].kind = "rule"
                        /\ d[2].kind = "override"
                        /\ d[2].value = m.confidence
                   ELSE /\ m.confidence \in 70..95
                        /\ Len(d) = 1
                        /\ d[1].kind = "rule"
                        /\ d[1].value = m.confidence

\* an overridden message above the rule-based range, whose rule-based draw
\* was another value, next to a message at the top of the rule-based range
C10_Witness ==
    /\ Done
    /\ \E i \in 1..Len(response.messages) :
        /\ response.messages[i].label = "pressured acceptance"
        /\ response.messages[i].confidence > 95
        /\ DrawsOf(i)[1].value # response.messages[i].confidence
    /\ \E i \in 1..Len(response.messages) :
        /\ response.messages[i].label # "pressured acceptance"
        /\ response.messages[i].confidence = 95

====
